---- MODULE Spec2Model ----
(***************************************************************************)
(* The estimator form controller of src/src/app/page.tsx (component Home). *)
(* State is the four React state cells plus the completion requests in     *)
(* flight; one action per event handler, enabled when the element that     *)
(* carries the handler is rendered and enabled.  React re-renders          *)
(* synchronously after every discrete event, so a handler's closure holds  *)
(* the state as it was when the event fired.  Text is a sequence of        *)
(* one-character strings.                                                  *)
(***************************************************************************)
EXTENDS Integers, Sequences, FiniteSets, TLC

(* formData, result, errors, isLoading: the useState cells; result is <<>> *)
(* for null and <<r>> otherwise.  pending: the completion requests awaited *)
(* by suspended handleSubmit calls, each with the prompt it sent and the   *)
(* formData its closure holds.  lastOp and everFailed record history: the  *)
(* handler that ran last, and whether any request has failed.              *)
VARIABLES formData, result, errors, isLoading, pending, lastOp, everFailed

vars == <<formData, result, errors, isLoading, pending, lastOp, everFailed>>

(* ---- bounds: text lengths of the typed input and of the reply, and the  *)
(* number of requests the model lets be in flight ---- *)
MaxNameLen == 1
MaxPriceLen == 5
MaxReplyLen == 4
MaxPending == 2

SeqsUpTo(A, n) == UNION {[1..k -> A] : k \in 0..n}

(* ---- the form ---- *)
FieldNames == {"brand", "category", "originalPrice", "clothingUse", "yearsOld"}

ClothingUseOptions == {"Not Worn", "Light Wear", "Medium Wear", "Heavy Wear"}

YearsOldOptions == {"Less than 1 year", "1-2 years", "2-4 years", "4+ years"}

DefaultFormData ==
  [brand |-> <<>>, category |-> <<>>, originalPrice |-> <<>>,
   clothingUse |-> "Not Worn", yearsOld |-> "Less than 1 year"]

(* errors: a key of the object is absent, holds null, or holds a message *)
Absent == "<absent>"
NullError == "<null>"
EmptyErrors == [k \in FieldNames |-> Absent]

Truthy(e) == e # Absent /\ e # NullError

ErrorCount(e) == Cardinality({k \in FieldNames : e[k] # Absent})

(* ---- text helpers ---- *)
IsDigit(c) == c \in {"0", "1", "2", "3", "4", "5", "6", "7", "8", "9"}

IsSpace(c) == c \in {" ", "\t", "\n"}

RECURSIVE TrimStart(_)
TrimStart(s) ==
  IF s # <<>> /\ IsSpace(Head(s)) THEN TrimStart(Tail(s)) ELSE s

RECURSIVE TrimEnd(_)
TrimEnd(s) ==
  IF s # <<>> /\ IsSpace(s[Len(s)]) THEN TrimEnd(SubSeq(s, 1, Len(s) - 1)) ELSE s

Trim(s) == TrimEnd(TrimStart(s))

(* /^\d+(\.\d{1,2})?$/ run as an automaton: 0 start, 1 integer digits,    *)
(* 2 after the dot, 3 one fraction digit, 4 two fraction digits, 5 dead   *)
RegexStep(q, c) ==
  CASE q = 0 -> IF IsDigit(c) THEN 1 ELSE 5
    [] q = 1 -> IF IsDigit(c) THEN 1 ELSE IF c = "." THEN 2 ELSE 5
    [] q = 2 -> IF IsDigit(c) THEN 3 ELSE 5
    [] q = 3 -> IF IsDigit(c) THEN 4 ELSE 5
    [] OTHER -> 5

RECURSIVE RegexRun(_, _)
RegexRun(q, s) == IF s = <<>> THEN q ELSE RegexRun(RegexStep(q, Head(s)), Tail(s))

PriceRegexTest_NoFraction(s) == RegexRun(0, s) = 1

PriceRegexTest(s) == RegexRun(0, s) \in {1, 3, 4}

validateForm_NoPattern(fd) ==
  [k \in FieldNames |->
     CASE k = "brand" ->
            IF Trim(fd.brand) = <<>> THEN "Brand name is required" ELSE Absent
       [] k = "category" ->
            IF Trim(fd.category) = <<>> THEN "Category is required" ELSE Absent
       [] k = "originalPrice" ->
            IF Trim(fd.originalPrice) = <<>> THEN "Original price is required"
            ELSE Absent
       [] OTHER -> Absent]

validateForm(fd) ==
  [k \in FieldNames |->
     CASE k = "brand" ->
            IF Trim(fd.brand) = <<>> THEN "Brand name is required" ELSE Absent
       [] k = "category" ->
            IF Trim(fd.category) = <<>> THEN "Category is required" ELSE Absent
       [] k = "originalPrice" ->
            IF Trim(fd.originalPrice) = <<>> THEN "Original price is required"
            ELSE IF ~PriceRegexTest(fd.originalPrice)
                   THEN "Please enter a valid number"
                   ELSE Absent
       [] OTHER -> Absent]

(* the interpolated slots of the prompt template, in template order *)
BuildPrompt(fd) ==
  <<fd.category, fd.brand, fd.clothingUse, fd.yearsOld, fd.originalPrice>>

(* ---- reply post-processing ---- *)
NoContent == <<>>

(* response.choices[0].message.content || '' : content is <<>> for null, *)
(* <<text>> otherwise                                                      *)
RawContent(content) == IF content = NoContent THEN <<>> ELSE content[1]

IsPriceChar(c) == IsDigit(c) \/ c = "."

RECURSIVE StripNonNumeric_DigitsOnly(_)
StripNonNumeric_DigitsOnly(s) ==
  IF s = <<>> THEN <<>>
  ELSE IF IsDigit(Head(s)) THEN <<Head(s)>> \o StripNonNumeric_DigitsOnly(Tail(s))
  ELSE StripNonNumeric_DigitsOnly(Tail(s))

RECURSIVE StripNonNumeric(_)
StripNonNumeric(s) ==
  IF s = <<>> THEN <<>>
  ELSE IF IsPriceChar(Head(s)) THEN <<Head(s)>> \o StripNonNumeric(Tail(s))
  ELSE StripNonNumeric(Tail(s))

EstimatedPrice(raw) ==
  LET numericPrice == StripNonNumeric(raw)
  IN IF numericPrice = <<>> THEN <<"0">> ELSE numericPrice

(* ---- inputs of the controller specification ---- *)
NameInputs == {<<>>, <<" ">>, <<"N">>}

PriceInputs == {<<>>, <<"x">>, <<"8">>, <<"8", ".", "5">>}

InputsFor(name) ==
  CASE name = "brand" -> NameInputs
    [] name = "category" -> NameInputs
    [] name = "originalPrice" -> PriceInputs
    [] name = "clothingUse" -> ClothingUseOptions
    [] OTHER -> YearsOldOptions

ReplyInputs ==
  {NoContent, <<<<>>>>, <<<<"3", "2">>>>, <<<<"$", "4", ".", "5">>>>, <<<<"N", ".">>>>}

FailureKinds == {"network", "status", "malformed"}

(* ---- what is rendered ---- *)
FormRendered_Always == TRUE

(* {result ? <result card> : <form onSubmit={handleSubmit}>} *)
FormRendered == result = <<>>

SubmitButtonEnabled_Always == TRUE

(* <button type="submit" disabled={isLoading}> *)
SubmitButtonEnabled == ~isLoading

RemoveAt(q, i) == SubSeq(q, 1, i - 1) \o SubSeq(q, i + 1, Len(q))

(* ---- Init: the state after the first render ---- *)
Init ==
  /\ formData = DefaultFormData
  /\ result = <<>>
  /\ errors = EmptyErrors
  /\ isLoading = FALSE
  /\ pending = <<>>
  /\ lastOp = "init"
  /\ everFailed = FALSE

(* ---- handleChange ---- *)
ClearError_All(errs, name) ==
  IF Truthy(errs[name]) THEN EmptyErrors ELSE errs

ClearError(errs, name) ==
  IF Truthy(errs[name]) THEN [errs EXCEPT ![name] = NullError] ELSE errs

handleChange(name, value) ==
  /\ FormRendered
  /\ formData' = [formData EXCEPT ![name] = value]
  /\ errors' = ClearError(errors, name)
  /\ lastOp' = "change"
  /\ UNCHANGED <<result, isLoading, pending, everFailed>>

(* ---- handleSubmit, up to the await; the handler has no guard of its    *)
(* own, MaxPending only keeps the model finite ---- *)
handleSubmit ==
  /\ FormRendered
  /\ SubmitButtonEnabled
  /\ LET newErrors == validateForm(formData)
     IN /\ errors' = newErrors
        /\ IF ErrorCount(newErrors) = 0
             THEN /\ Len(pending) < MaxPending
                  /\ isLoading' = TRUE
                  /\ pending' = Append(pending,
                                       [prompt |-> BuildPrompt(formData),
                                        formData |-> formData])
             ELSE UNCHANGED <<isLoading, pending>>
  /\ lastOp' = "submit"
  /\ UNCHANGED <<formData, result, everFailed>>

(* ---- handleSubmit, after the await ---- *)
SnapshotData_Live(req) == formData

(* data: {...formData} reads the formData of the render that submitted *)
SnapshotData(req) == req.formData

Success(i, content) ==
  /\ i \in 1..Len(pending)
  /\ result' = <<[estimatedPrice |-> EstimatedPrice(RawContent(content)),
                  data |-> SnapshotData(pending[i])]>>
  /\ isLoading' = FALSE
  /\ pending' = RemoveAt(pending, i)
  /\ lastOp' = "success"
  /\ UNCHANGED <<formData, errors, everFailed>>

Failure_NoFinally(i, kind) ==
  /\ i \in 1..Len(pending)
  /\ kind \in FailureKinds
  /\ pending' = RemoveAt(pending, i)
  /\ lastOp' = "failure"
  /\ everFailed' = TRUE
  /\ UNCHANGED <<formData, result, errors, isLoading>>

Failure(i, kind) ==
  /\ i \in 1..Len(pending)
  /\ kind \in FailureKinds
  /\ isLoading' = FALSE
  /\ pending' = RemoveAt(pending, i)
  /\ lastOp' = "failure"
  /\ everFailed' = TRUE
  /\ UNCHANGED <<formData, result, errors>>

(* ---- handleReset ---- *)
Cells == [formData |-> formData, result |-> result, errors |-> errors,
          isLoading |-> isLoading]

ResetState_KeepForm(s) ==
  [s EXCEPT !.result = <<>>, !.errors = EmptyErrors]

ResetState(s) ==
  [s EXCEPT !.formData = DefaultFormData, !.result = <<>>, !.errors = EmptyErrors]

(* the "Price Another Item" button lives in the result card *)
ResetRendered == result # <<>>

handleReset ==
  /\ ResetRendered
  /\ LET s == ResetState(Cells)
     IN /\ formData' = s.formData
        /\ result' = s.result
        /\ errors' = s.errors
        /\ isLoading' = s.isLoading
  /\ lastOp' = "reset"
  /\ UNCHANGED <<pending, everFailed>>

(* ---- the controller ---- *)
Next ==
  \/ \E name \in FieldNames : \E value \in InputsFor(name) : handleChange(name, value)
  \/ handleSubmit
  \/ \E i \in 1..MaxPending : \E content \in ReplyInputs : Success(i, content)
  \/ \E i \in 1..MaxPending : \E kind \in FailureKinds : Failure(i, kind)
  \/ handleReset

Spec == Init /\ [][Next]_vars

(* ---- validation on arbitrary typed input: the user has typed any text  *)
(* into the three text inputs and then submits ---- *)
NameAlphabet == {" ", "N"}

PriceAlphabet == {"8", ".", " "}

InitValidate ==
  /\ formData \in [brand : SeqsUpTo(NameAlphabet, MaxNameLen),
                   category : SeqsUpTo(NameAlphabet, MaxNameLen),
                   originalPrice : SeqsUpTo(PriceAlphabet, MaxPriceLen),
                   clothingUse : {"Not Worn"},
                   yearsOld : {"Less than 1 year"}]
  /\ result = <<>>
  /\ errors = EmptyErrors
  /\ isLoading = FALSE
  /\ pending = <<>>
  /\ lastOp = "change"
  /\ everFailed = FALSE

NextValidate == handleSubmit

SpecValidate == InitValidate /\ [][NextValidate]_vars

(* ---- reply post-processing on arbitrary reply text: a valid form has    *)
(* been submitted and its request is in flight ---- *)
ReplyAlphabet == {"$", "4", "."}

ReplyContents == {NoContent} \cup {<<t>> : t \in SeqsUpTo(ReplyAlphabet, MaxReplyLen)}

AllContents == ReplyInputs \cup ReplyContents

InitReply ==
  /\ formData \in [brand : {<<"N">>}, category : {<<"N">>},
                   originalPrice : {<<"8">>},
                   clothingUse : ClothingUseOptions,
                   yearsOld : YearsOldOptions]
  /\ result = <<>>
  /\ errors = EmptyErrors
  /\ isLoading = TRUE
  /\ pending = <<[prompt |-> BuildPrompt(formData), formData |-> formData]>>
  /\ lastOp = "submit"
  /\ everFailed = FALSE

NextReply == \E content \in ReplyContents : Success(1, content)

SpecReply == InitReply /\ [][NextReply]_vars

(***************************************************************************)
(* Properties                                                              *)
(***************************************************************************)
Editing == result = <<>> /\ ~isLoading /\ pending = <<>>

HasNonSpace(s) == \E i \in 1..Len(s) : s[i] # " "

AllDigits(s, a, b) == \A i \in a..b : IsDigit(s[i])

(* digits, optionally followed by a dot and one or two digits *)
MatchesPricePattern(s) ==
  \E n \in 1..Len(s) :
    /\ AllDigits(s, 1, n)
    /\ \/ n = Len(s)
       \/ /\ s[n + 1] = "."
          /\ Len(s) - (n + 1) \in {1, 2}
          /\ AllDigits(s, n + 2, Len(s))

(* a decimal numeral: digits with at most one dot and at least one digit *)
IsNumericText(s) ==
  /\ \A i \in 1..Len(s) : IsDigit(s[i]) \/ s[i] = "."
  /\ Cardinality({i \in 1..Len(s) : s[i] = "."}) <= 1
  /\ \E i \in 1..Len(s) : IsDigit(s[i])

InvalidInput(fd) ==
  \/ fd.brand = <<>>
  \/ fd.category = <<>>
  \/ fd.originalPrice = <<>>
  \/ ~IsNumericText(fd.originalPrice)

ValidInput(fd) ==
  /\ HasNonSpace(fd.brand)
  /\ HasNonSpace(fd.category)
  /\ MatchesPricePattern(fd.originalPrice)

(* C1: at most one completion request is outstanding at any time, and     *)
(* while one is outstanding the loading flag is set and no submit can be   *)
(* invoked.                                                                *)
C1_OneOutstandingRequest ==
  /\ Len(pending) <= 1
  /\ pending # <<>> => isLoading /\ ~ENABLED handleSubmit
  /\ isLoading => Len(pending) = 1

C1_Witness == Len(pending) = 1 /\ isLoading /\ lastOp = "change"

(* C2: when brand or category is empty, or originalPrice is empty or not  *)
(* numeric, validate returns a non-empty error map, and a submit issues no *)
(* request, leaves the loading flag clear and the result unset (Editing).  *)
C2_InvalidInputBlocked ==
  InvalidInput(formData) =>
    /\ ErrorCount(validateForm(formData)) > 0
    /\ lastOp = "submit" => ErrorCount(errors) > 0 /\ Editing

C2_Witness ==
  /\ lastOp = "submit"
  /\ formData.brand # <<>> /\ formData.category # <<>>
  /\ formData.originalPrice # <<>> /\ ~IsNumericText(formData.originalPrice)
  /\ errors.originalPrice = "Please enter a valid number"
  /\ Editing

(* C3: when brand and category are non-empty after trimming and           *)
(* originalPrice matches ^\d+(\.\d{1,2})?$, validate returns an empty      *)
(* error map and the submit goes on to issue the request.                  *)
C3_ValidInputAccepted ==
  ValidInput(formData) =>
    /\ ErrorCount(validateForm(formData)) = 0
    /\ lastOp = "submit" => errors = EmptyErrors /\ isLoading /\ Len(pending) = 1

C3_Witness ==
  /\ lastOp = "submit"
  /\ ValidInput(formData)
  /\ \E i \in 1..Len(formData.originalPrice) : formData.originalPrice[i] = "."
  /\ errors = EmptyErrors
  /\ Len(pending) = 1

(* C4: after a failed completion request the controller is back in        *)
(* Editing (loading clear, result unset, nothing outstanding) with the     *)
(* submit trigger available, and a later valid submit issues a new         *)
(* request.                                                                *)
C4_FailureReturnsToEditing ==
  /\ lastOp = "failure" => Editing /\ FormRendered /\ SubmitButtonEnabled
  /\ lastOp = "failure" /\ ValidInput(formData) => ENABLED handleSubmit
  /\ everFailed /\ lastOp = "submit" /\ ValidInput(formData) =>
       isLoading /\ Len(pending) = 1

C4_Witness == everFailed /\ lastOp = "success" /\ result # <<>> /\ ~isLoading

KeptPositions(raw) == {i \in 1..Len(raw) : IsDigit(raw[i]) \/ raw[i] = "."}

IsStripOf(est, raw) ==
  LET kept == KeptPositions(raw)
  IN IF kept = {} THEN est = <<"0">>
     ELSE /\ Len(est) = Cardinality(kept)
          /\ \A i \in kept : est[Cardinality({j \in kept : j <= i})] = raw[i]

ExampleReply ==
  <<"$", "4", "5", ".", "0", "0", " ", "a", "p", "p", "r", "o", "x", "i", "m",
    "a", "t", "e", "l", "y">>

(* C5: on a successful completion the stored estimatedPrice is the reply  *)
(* text restricted to its digits and dots, in their original order, or     *)
(* "0" when no such character exists; "$45.00 approximately" gives 45.00.  *)
C5_PriceIsStrippedReply ==
  [][lastOp' = "success" =>
       /\ EstimatedPrice(ExampleReply) = <<"4", "5", ".", "0", "0">>
       /\ \A i \in 1..Len(pending) : \A c \in AllContents :
            Success(i, c) => IsStripOf(result'[1].estimatedPrice, RawContent(c))]_vars

C5_Witness ==
  /\ lastOp = "success"
  /\ result # <<>>
  /\ result[1].estimatedPrice = <<"4", ".", "4">>

HasNoDigit(raw) == \A i \in 1..Len(raw) : ~IsDigit(raw[i])

(* C6: on a successful completion whose reply has no digit at all, the    *)
(* stored estimatedPrice is "0".                                           *)
C6_NoDigitGivesZero ==
  [][lastOp' = "success" =>
       \A i \in 1..Len(pending) : \A c \in AllContents :
         Success(i, c) /\ HasNoDigit(RawContent(c)) =>
           result'[1].estimatedPrice = <<"0">>]_vars

DefaultCells ==
  [formData |-> DefaultFormData, result |-> <<>>, errors |-> EmptyErrors,
   isLoading |-> FALSE]

(* C7: reset returns the controller to the defaults (default form, no     *)
(* validation errors, no result, Editing), and resetting again changes     *)
(* nothing.                                                                *)
C7_ResetRestoresDefaults ==
  /\ ResetRendered => ResetState(Cells) = DefaultCells
  /\ ResetRendered => ResetState(ResetState(Cells)) = ResetState(Cells)
  /\ lastOp = "reset" => Cells = DefaultCells /\ Editing
  /\ lastOp = "reset" => ResetState(Cells) = Cells

C7_Witness == lastOp = "reset" /\ Cells = DefaultCells

PromptFields(p) ==
  [category |-> p[1], brand |-> p[2], clothingUse |-> p[3], yearsOld |-> p[4],
   originalPrice |-> p[5]]

(* C8: the result stored on success carries the five form fields as they  *)
(* were when the request was issued (the values interpolated into its      *)
(* prompt), whatever the form holds when the reply arrives.                *)
C8_SnapshotAtSubmitTime ==
  [][/\ lastOp' = "success" =>
          \A i \in 1..Len(pending) :
            pending' = RemoveAt(pending, i) =>
              result'[1].data = PromptFields(pending[i].prompt)
     /\ lastOp' = "submit" /\ Len(pending') > Len(pending) =>
          /\ PromptFields(pending'[Len(pending')].prompt) = formData
          /\ ValidInput(formData)]_vars

C8_Witness ==
  /\ lastOp = "success"
  /\ result # <<>>
  /\ result[1].data # formData
  /\ result[1].data.brand # formData.brand
  /\ result[1].data.yearsOld # formData.yearsOld

(* C9: updateField(name, value) sets that field to value and clears that  *)
(* field's validation error if there was one; the other fields, the other  *)
(* fields' errors, the result and the loading flag do not change.          *)
C9_UpdateFieldFrame ==
  [][lastOp' = "change" =>
     \A name \in FieldNames : \A value \in InputsFor(name) :
       handleChange(name, value) =>
         /\ formData'[name] = value
         /\ \A f \in FieldNames \ {name} : formData'[f] = formData[f]
         /\ ~Truthy(errors'[name])
         /\ ~Truthy(errors[name]) => errors'[name] = errors[name]
         /\ \A f \in FieldNames \ {name} : errors'[f] = errors[f]
         /\ result' = result
         /\ isLoading' = isLoading
         /\ pending' = pending]_vars

C9_Witness ==
  /\ lastOp = "change"
  /\ errors.brand = NullError
  /\ Truthy(errors.category)
  /\ Truthy(errors.originalPrice)

(* C10: a result appears only through a successful completion, and once   *)
(* set it is neither changed nor replaced by any event; only reset removes *)
(* it.                                                                     *)
C10_ResultImmutable ==
  [][/\ result = <<>> /\ result' # <<>> =>
          \E i \in 1..Len(pending) : \E c \in AllContents : Success(i, c)
     /\ result # <<>> /\ result' # result => handleReset /\ result' = <<>>]_vars

C10_Witness ==
  /\ lastOp = "reset"
  /\ result = <<>>
  /\ everFailed

====
